---- MODULE Spec2Model ----
(***************************************************************************)
(* A model of ioos_qc's QC configuration creator                           *)
(* (src/ioos_qc/config_creator/config_creator.py).                         *)
(*                                                                         *)
(* Strings are sequences of atoms (short substrings); degrees are          *)
(* fixed-point integers in tenths of a degree, so 0.5 degrees is 5.        *)
(***************************************************************************)
EXTENDS Integers, Sequences, FiniteSets, TLC

VARIABLES
    fxName,     \* QcVariableConfig: the parameter name of the test definition
    fxDef,      \* QcVariableConfig: the parameter's expression string
    fxResult,   \* QcVariableConfig.__init__: "new", "ok" or "ValueError"
    padIn,      \* __apply_bbox_pad: the box first given
    padDelta,   \* __apply_bbox_pad: pad
    padOut,     \* __apply_bbox_pad: the box returned by the latest call
    padK,       \* __apply_bbox_pad: number of calls made so far
    regDoc,     \* the registry document given to CreatorConfig
    files,      \* the climatology files, by file_path
    config,     \* QcConfigCreator.config (the CreatorConfig)
    datasets,   \* QcConfigCreator.datasets
    dataset_years, \* QcConfigCreator.dataset_years
    window,     \* the deployment window the variable_config was written from
    vc,         \* the variable_config of the call
    pc,         \* position of the call
    resolved,   \* what _var2var_in_file returned
    time_slice, \* what _get_time_range returned
    bbox,       \* _get_subset: its local bbox
    subset,     \* _get_subset: its local subset
    pads,       \* _get_subset: iterations of its loop, counted up to MaxPadsCounted
    stats,      \* create_config: its local stats
    statsCalls, \* create_config: the calls of _get_stats it made
    result,     \* what create_config returned
    collected_results, \* PandasStore.collected_results
    write_data, \* PandasStore.save: its argument write_data
    include,    \* PandasStore.save: its argument include
    exclude,    \* PandasStore.save: its argument exclude
    df,         \* PandasStore.save: the columns of its dataframe, in order
    crIdx,      \* PandasStore.save: the position of its loop in collected_results
    savePc,     \* PandasStore.save: "loop", "returned" or "TypeError"
    ncd,        \* NetcdfStore.save: the variables of the netCDF dataset, in order
    ncCreated,  \* NetcdfStore.save: the names of the variables its latest call created
    ncWritten,  \* NetcdfStore.save: the results its latest call was given
    times,      \* check_timestamps: its argument times
    max_time_interval, \* check_timestamps: its argument max_time_interval
    tsResult    \* check_timestamps: "new", or what it returned

vars == <<fxName, fxDef, fxResult, padIn, padDelta, padOut, padK,
          regDoc, files, config, datasets, dataset_years,
          window, vc, pc, resolved, time_slice,
          bbox, subset, pads, stats, statsCalls, result,
          collected_results, write_data, include, exclude, df, crIdx, savePc,
          ncd, ncCreated, ncWritten, times, max_time_interval, tsResult>>

creatorVars == <<regDoc, files, config, datasets, dataset_years>>
callVars == <<window, vc, pc, resolved, time_slice>>
subsetVars == <<bbox, subset, pads, stats, statsCalls, result>>

storeVars == <<collected_results, write_data, include, exclude, df, crIdx, savePc>>
ncVars == <<ncd, ncCreated, ncWritten>>
tsVars == <<times, max_time_interval, tsResult>>
utilVars == <<storeVars, ncVars, tsVars>>

fxVars == <<fxName, fxDef, fxResult>>
padVars == <<padIn, padDelta, padOut, padK>>

Min2(a, b) == IF a <= b THEN a ELSE b
Max2(a, b) == IF a >= b THEN a ELSE b
SetMin(S) == CHOOSE x \in S : \A y \in S : x <= y
SetMax(S) == CHOOSE x \in S : \A y \in S : x >= y

(***************************************************************************)
(* QcVariableConfig: validation of the test-parameter expressions          *)
(***************************************************************************)

\* longest expression, in atoms
MaxFxLen == 3

allowed_stats == {<<"min">>, <<"max">>, <<"mean">>, <<"std">>}
allowed_operators == {<<"+">>, <<"-">>, <<"*">>, <<"/">>}
allowed_groupings == {<<"(">>, <<")">>}

\* the atoms the expressions of the validation model are written with
FxAtoms == {"1", ".", "e", "-", "(", "min", "nan", "x", " "}

FxStrings == UNION {[1..n -> FxAtoms] : n \in 0..MaxFxLen}

\* str.split(' '): the pieces between single spaces, empty pieces included
RECURSIVE SplitFrom(_, _, _)
SplitFrom(s, i, cur) ==
    IF i > Len(s) THEN <<cur>>
    ELSE IF s[i] = " " THEN <<cur>> \o SplitFrom(s, i + 1, <<>>)
    ELSE SplitFrom(s, i + 1, Append(cur, s[i]))

Split(s) == SplitFrom(s, 1, <<>>)

Digits == {"0", "1", "2", "3", "4", "5", "6", "7", "8", "9"}

\* float(token): the automaton of the strings Python's float() parses,
\* over the atoms of the model ("e" is the exponent mark)
FloatStep(q, a) ==
    CASE q = "start" /\ a \in {"+", "-"} -> "sign"
      [] q \in {"start", "sign"} /\ a \in Digits -> "int"
      [] q \in {"start", "sign"} /\ a = "." -> "dot"
      [] q \in {"start", "sign"} /\ a \in {"nan", "inf", "infinity"} -> "special"
      [] q = "int" /\ a \in Digits -> "int"
      [] q = "int" /\ a = "." -> "frac"
      [] q \in {"int", "frac"} /\ a = "e" -> "exp"
      [] q \in {"dot", "frac"} /\ a \in Digits -> "frac"
      [] q = "exp" /\ a \in {"+", "-"} -> "expsign"
      [] q \in {"exp", "expsign", "expint"} /\ a \in Digits -> "expint"
      [] OTHER -> "reject"

RECURSIVE FloatRun(_, _, _)
FloatRun(q, tok, i) ==
    IF i > Len(tok) THEN q ELSE FloatRun(FloatStep(q, tok[i]), tok, i + 1)

\* TRUE when float(token) returns, FALSE when it raises ValueError
FloatParses(tok) == FloatRun("start", tok, 1) \in {"int", "frac", "expint", "special"}

\* _validate_fx: TRUE when no token raises
_validate_fx(input_fx) ==
    \A k \in 1..Len(Split(input_fx)) :
        LET token == Split(input_fx)[k] IN
        \/ FloatParses(token)
        \/ ~ (/\ token \notin allowed_stats
              /\ token \notin allowed_operators
              /\ token \notin allowed_groupings)

\* the loop of QcVariableConfig.__init__ over the tests' parameters
ValidateTests(tests) ==
    \A test \in DOMAIN tests :
        \A test_name \in DOMAIN tests[test] :
            \/ test_name = "bbox"
            \/ _validate_fx(tests[test][test_name])

FxInit ==
    /\ fxName \in {"suspect_min", "bbox"}
    /\ fxDef \in FxStrings
    /\ fxResult = "new"

QcVariableConfigInit ==
    /\ fxResult = "new"
    /\ fxResult' = IF ValidateTests([t \in {"gross_range_test"} |->
                                        [p \in {fxName} |-> fxDef]])
                   THEN "ok" ELSE "ValueError"
    /\ UNCHANGED <<fxName, fxDef>>

(***************************************************************************)
(* QcConfigCreator.__apply_bbox_pad                                        *)
(***************************************************************************)

\* number of successive paddings applied to one box
MaxPadCalls == 3

\* apply_pad without the clamp of a minimum longitude
apply_pad_unclamped(val, lat_or_lon, min_or_max, pad) ==
    IF lat_or_lon = "lat"
    THEN IF min_or_max = "min"
         THEN Max2(-900, val - pad)
         ELSE Min2(900, val + pad)
    ELSE IF min_or_max = "min" THEN val - pad
         ELSE Min2(1800, val + pad)

\* apply_pad padding a non-positive maximum longitude inward
apply_pad_inward(val, lat_or_lon, min_or_max, pad) ==
    IF lat_or_lon = "lat"
    THEN IF min_or_max = "min"
         THEN Max2(-900, val - pad)
         ELSE Min2(900, val + pad)
    ELSE IF val <= 0 /\ min_or_max = "min" THEN Max2(-1800, val - pad)
         ELSE IF val <= 0 /\ min_or_max = "max" THEN Max2(-1800, val - pad)
         ELSE IF val > 0 /\ min_or_max = "min" THEN Max2(-1800, val - pad)
         ELSE Min2(1800, val + pad)

apply_pad(val, lat_or_lon, min_or_max, pad) ==
    IF lat_or_lon = "lat"
    THEN IF min_or_max = "min"
         THEN Max2(-900, val - pad)
         ELSE Min2(900, val + pad)
    ELSE IF val <= 0 /\ min_or_max = "min" THEN Max2(-1800, val - pad)
         ELSE IF val <= 0 /\ min_or_max = "max" THEN Min2(1800, val + pad)
         ELSE IF val > 0 /\ min_or_max = "min" THEN Max2(-1800, val - pad)
         ELSE Min2(1800, val + pad)

apply_bbox_pad(box, pad) ==
    <<apply_pad(box[1], "lon", "min", pad),
      apply_pad(box[2], "lat", "min", pad),
      apply_pad(box[3], "lon", "max", pad),
      apply_pad(box[4], "lat", "max", pad)>>

\* longitudes, latitudes and pads the padding is tried on (tenths of a degree)
PadLons == {-1900, -1800, -1798, 0, 3, 1797, 1800, 1900}
PadLats == {-950, -900, -898, 0, 897, 900, 950}
PadDeltas == {0, 5, 7}

PadInit ==
    /\ padIn \in PadLons \X PadLats \X PadLons \X PadLats
    /\ padDelta \in PadDeltas
    /\ padOut = padIn
    /\ padK = 0

ApplyBboxPad ==
    /\ padK < MaxPadCalls
    /\ padOut' = apply_bbox_pad(padOut, padDelta)
    /\ padK' = padK + 1
    /\ UNCHANGED <<padIn, padDelta>>

(***************************************************************************)
(* Strings of digits and dates                                             *)
(***************************************************************************)

DigitChars == <<"0", "1", "2", "3", "4", "5", "6", "7", "8", "9">>

\* str(n) of a non-negative integer
RECURSIVE IntToStr(_)
IntToStr(n) ==
    IF n < 10 THEN <<DigitChars[n + 1]>>
    ELSE Append(IntToStr(n \div 10), DigitChars[(n % 10) + 1])

DigitVal(c) == CHOOSE d \in 0..9 : DigitChars[d + 1] = c

\* int(s) of a string of digits
RECURSIVE StrToInt(_)
StrToInt(s) ==
    IF Len(s) = 0 THEN 0
    ELSE 10 * StrToInt(SubSeq(s, 1, Len(s) - 1)) + DigitVal(s[Len(s)])

\* the pieces of s between the separators sep
RECURSIVE SplitOnFrom(_, _, _, _)
SplitOnFrom(s, sep, i, cur) ==
    IF i > Len(s) THEN <<cur>>
    ELSE IF s[i] = sep THEN <<cur>> \o SplitOnFrom(s, sep, i + 1, <<>>)
    ELSE SplitOnFrom(s, sep, i + 1, Append(cur, s[i]))

\* a date <<year, month, day>> written YYYY-MM-DD, as the schema asks
IsoDate(d) ==
    IntToStr(d[1]) \o <<"-">> \o
    (IF d[2] < 10 THEN <<"0">> ELSE <<>>) \o IntToStr(d[2]) \o <<"-">> \o
    (IF d[3] < 10 THEN <<"0">> ELSE <<>>) \o IntToStr(d[3])

\* datetime.datetime.strptime(s, '%Y-%m-%d'), as <<year, month, day>>
strptime(s) ==
    LET parts == SplitOnFrom(s, "-", 1, <<>>)
    IN  <<StrToInt(parts[1]), StrToInt(parts[2]), StrToInt(parts[3])>>

(***************************************************************************)
(* CreatorConfig and QcConfigCreator: registry, datasets, resolution       *)
(***************************************************************************)

\* most dataset entries of a registry document
MaxDatasets == 2

SeqRange(s) == {s[i] : i \in 1..Len(s)}

None == <<>>

\* d[k] = v of a Python dict, which keeps the keys in insertion order
DictSet(d, k, v) ==
    [keys |-> IF k \in SeqRange(d.keys) THEN d.keys ELSE Append(d.keys, k),
     val |-> [x \in SeqRange(d.keys) \cup {k} |-> IF x = k THEN v ELSE d.val[x]]]

\* d[k] = v moving an existing key to the end
DictSetMoveToEnd(d, k, v) ==
    [keys |-> Append(SelectSeq(d.keys, LAMBDA x : x # k), k),
     val |-> [x \in SeqRange(d.keys) \cup {k} |-> IF x = k THEN v ELSE d.val[x]]]

EmptyDict == [keys |-> <<>>, val |-> <<>>]

\* the value CreatorConfig.__init__ stores for one dataset entry
DatasetValue(dataset) ==
    IF "3d" \in DOMAIN dataset
    THEN [x \in {"file_path", "variables", "3d"} |-> dataset[x]]
    ELSE [x \in {"file_path", "variables"} |-> dataset[x]]

RECURSIVE CreatorConfigFrom(_, _, _)
CreatorConfigFrom(doc, i, acc) ==
    IF i > Len(doc) THEN acc
    ELSE CreatorConfigFrom(doc, i + 1,
                           DictSet(acc, doc[i]["name"], DatasetValue(doc[i])))

\* CreatorConfig.__init__
CreatorConfig(doc) == CreatorConfigFrom(doc, 1, EmptyDict)

\* _load_datasets
_load_datasets(cfg, fs) ==
    [name \in SeqRange(cfg.keys) |-> fs[cfg.val[name]["file_path"]]]

\* _determine_dataset_years
_determine_dataset_years(dss) ==
    [dataset_name \in DOMAIN dss |-> dss[dataset_name].time[1][1]]

\* _var2var_in_file returning the last dataset that maps var
RECURSIVE var2var_last(_, _, _)
var2var_last(cfg, var, i) ==
    IF i < 1 THEN None
    ELSE IF var \in DOMAIN cfg.val[cfg.keys[i]]["variables"]
         THEN <<cfg.val[cfg.keys[i]]["variables"][var], cfg.keys[i]>>
         ELSE var2var_last(cfg, var, i - 1)

_var2var_in_file_last(cfg, var) == var2var_last(cfg, var, Len(cfg.keys))

RECURSIVE var2var_from(_, _, _)
var2var_from(cfg, var, i) ==
    IF i > Len(cfg.keys) THEN None
    ELSE IF var \in DOMAIN cfg.val[cfg.keys[i]]["variables"]
         THEN <<cfg.val[cfg.keys[i]]["variables"][var], cfg.keys[i]>>
         ELSE var2var_from(cfg, var, i + 1)

\* _var2var_in_file: <<name in the file, dataset name>>, or None
_var2var_in_file(cfg, var) == var2var_from(cfg, var, 1)

\* _get_time_range with the years of the deployment kept
_get_time_range_own_year(years, name, time_range) ==
    [start |-> IntToStr(time_range[1][1]) \o <<"-">> \o IntToStr(time_range[1][2])
                 \o <<"-">> \o IntToStr(time_range[1][3]),
     end |-> IntToStr(time_range[2][1]) \o <<"-">> \o IntToStr(time_range[2][2])
                 \o <<"-">> \o IntToStr(time_range[2][3])]

\* _get_time_range, given the dataset name the variable resolved to
_get_time_range(years, name, time_range) ==
    LET year == years[name]
    IN  [start |-> IntToStr(year) \o <<"-">> \o IntToStr(time_range[1][2])
                     \o <<"-">> \o IntToStr(time_range[1][3]),
         end |-> IntToStr(year) \o <<"-">> \o IntToStr(time_range[2][2])
                     \o <<"-">> \o IntToStr(time_range[2][3])]

(***************************************************************************)
(* The inputs: registry documents, climatology files, variable configs     *)
(***************************************************************************)

NaN == <<>>
Num(v) == <<v>>

VariableMaps ==
    {[temp |-> "TEMP"], [temp |-> "t_an", sal |-> "s_an"], [sal |-> "SAL"]}

\* dataset entries of a registry document: file f1 is a 2-d climatology,
\* file f2 a 3-d one
Entry(name, file_path, variables) ==
    IF file_path = "f2"
    THEN [x \in {"name", "file_path", "variables", "3d"} |->
            CASE x = "name" -> name [] x = "file_path" -> file_path
              [] x = "variables" -> variables [] OTHER -> "depth"]
    ELSE [x \in {"name", "file_path", "variables"} |->
            CASE x = "name" -> name [] x = "file_path" -> file_path
              [] OTHER -> variables]

RegEntries ==
    {Entry(n, f, v) : n \in {"A", "B"}, f \in {"f1", "f2"}, v \in VariableMaps}

RegDocs == UNION {[1..n -> RegEntries] : n \in 1..MaxDatasets}

\* days between the two time coordinates of a climatology file
TimeGap == 2

FileVariables == {"TEMP", "t_an", "s_an", "SAL"}

\* a loaded climatology file: two time coordinates TimeGap days apart, a 2 x 2
\* grid, and its variables, each holding the same array: data[v][t][lat][lon],
\* or data[v][t][depth][lat][lon] when the file is 3-d (the second depth
\* level holds no data)
File(year, is3d, array) ==
    [time |-> <<(<<year, 1, 1>>), (<<year, 1, 1 + TimeGap>>)>>,
     lat |-> <<-10, 10>>,
     lon |-> <<-10, 10>>,
     data |-> [v \in FileVariables |->
                 IF is3d
                 THEN [t \in 1..2 |->
                         <<array[t], [i \in 1..2 |-> [j \in 1..2 |-> NaN]]>>]
                 ELSE array]]

ArrPos ==
    <<(<<(<<Num(1), Num(2)>>), (<<Num(3), Num(4)>>)>>),
      (<<(<<Num(3), Num(4)>>), (<<Num(5), Num(8)>>)>>)>>

\* deployment windows <<start_time, end_time>>, dates as <<year, month, day>>
Windows ==
    {<<(<<2020, 1, 1>>), (<<2020, 1, 2>>)>>,
     <<(<<2021, 1, 2>>), (<<2021, 1, 3>>)>>,
     <<(<<2020, 12, 31>>), (<<2021, 1, 2>>)>>,
     <<(<<2020, 2, 29>>), (<<2020, 3, 2>>)>>}

GrossRange ==
    [gross_range_test |->
        [suspect_min |-> <<"min">>, suspect_max |-> <<"max">>,
         fail_min |-> <<"min", " ", "-", " ", "std">>,
         fail_max |-> <<"max", " ", "+", " ", "std">>]]

VariableConfig(variable, box, w, tests) ==
    [variable |-> variable, bbox |-> box,
     start_time |-> IsoDate(w[1]), end_time |-> IsoDate(w[2]),
     tests |-> tests]

(***************************************************************************)
(* Resolution and time range                                               *)
(***************************************************************************)

CreatorBuilt ==
    /\ config = CreatorConfig(regDoc)
    /\ datasets = _load_datasets(config, files)
    /\ dataset_years = _determine_dataset_years(datasets)

SubsetIdle ==
    /\ bbox = None /\ subset = None /\ pads = 0
    /\ stats = None /\ statsCalls = 0 /\ result = None

ResolveInit ==
    /\ regDoc \in RegDocs
    /\ files \in {[f \in {"f1", "f2"} |->
                     IF f = "f1" THEN File(y, FALSE, ArrPos) ELSE File(2021, TRUE, ArrPos)]
                  : y \in {2019, 2020}}
    /\ CreatorBuilt
    /\ window \in Windows
    /\ vc \in {VariableConfig(v, <<-12, -12, 12, 12>>, window, GrossRange)
                : v \in {"temp", "sal", "chl"}}
    /\ pc \in {"var2var", "time_range"}
    /\ resolved = None
    /\ time_slice = None
    /\ SubsetIdle

\* a call of _var2var_in_file
Var2VarInFile ==
    /\ pc = "var2var"
    /\ resolved' = _var2var_in_file(config, vc.variable)
    /\ pc' = "returned"
    /\ UNCHANGED <<window, vc, time_slice, subsetVars>>

\* _get_stats up to its call of _get_time_range, were a variable that no
\* dataset maps answered with a mapping without sections
GetTimeRangeNoneTolerant ==
    /\ pc = "time_range"
    /\ LET start_time == strptime(vc.start_time)
           end_time == strptime(vc.end_time)
           r == _var2var_in_file(config, vc.variable)
       IN  IF r = None
           THEN /\ pc' = "done"
                /\ result' = [v \in {vc.variable} |-> [qartod |-> <<>>]]
                /\ UNCHANGED <<resolved, time_slice>>
           ELSE /\ resolved' = r
                /\ time_slice' = _get_time_range(dataset_years, r[2],
                                                  <<start_time, end_time>>)
                /\ pc' = "subset"
                /\ result' = result
    /\ UNCHANGED <<window, vc, bbox, subset, pads, stats, statsCalls>>

\* _get_stats up to its call of _get_time_range, which fails unpacking
\* None when no dataset maps the variable
GetTimeRange ==
    /\ pc = "time_range"
    /\ LET start_time == strptime(vc.start_time)
           end_time == strptime(vc.end_time)
           r == _var2var_in_file(config, vc.variable)
       IN  IF r = None
           THEN /\ pc' = "TypeError"
                /\ UNCHANGED <<resolved, time_slice>>
           ELSE /\ resolved' = r
                /\ time_slice' = _get_time_range(dataset_years, r[2],
                                                  <<start_time, end_time>>)
                /\ pc' = "subset"
    /\ UNCHANGED <<window, vc, subsetVars>>

(***************************************************************************)
(* create_config: subset, statistics, sections                             *)
(***************************************************************************)

\* largest number of loop iterations of _get_subset that is counted
MaxPadsCounted == 2

\* the default of _get_subset's pad_delta, 0.5 degrees
pad_delta == 5

IsLeap(y) == (y % 4 = 0 /\ y % 100 # 0) \/ y % 400 = 0

DaysInMonth(y, mo) ==
    IF mo = 2 THEN (IF IsLeap(y) THEN 29 ELSE 28)
    ELSE IF mo \in {4, 6, 9, 11} THEN 30 ELSE 31

ValidDate(d) == d[2] \in 1..12 /\ d[3] \in 1..DaysInMonth(d[1], d[2])

DateLe(a, b) ==
    \/ a[1] < b[1]
    \/ a[1] = b[1] /\ a[2] < b[2]
    \/ a[1] = b[1] /\ a[2] = b[2] /\ a[3] <= b[3]

\* the boolean masks of _get_subset, as the sets of the selected indices
lat_mask(ds, box) == {i \in 1..Len(ds.lat) : ds.lat[i] >= box[2] /\ ds.lat[i] <= box[4]}
lon_mask(ds, box) == {j \in 1..Len(ds.lon) : ds.lon[j] >= box[1] /\ ds.lon[j] <= box[3]}

\* resample(time='1D'): the days from the first to the last time coordinate
DailyIndex(time) ==
    {<<time[1][1], time[1][2], d>> : d \in time[1][3]..time[Len(time)][3]}

\* interpolate(): the value of one grid cell on one day, linear between the
\* two time coordinates around the day and not-a-number when either is;
\* values are kept multiplied by the distance of the time coordinates
DailyValue(arr, time, day, i, j) ==
    LET hi == Max2(2, SetMin({k \in 1..Len(time) : time[k][3] >= day[3]}))
        lo == hi - 1
        ylo == arr[lo][i][j]
        yhi == arr[hi][i][j]
    IN  IF ylo = NaN \/ yhi = NaN THEN NaN
        ELSE Num((time[hi][3] - day[3]) * ylo[1] + (day[3] - time[lo][3]) * yhi[1])

\* sel(time=slice(start, end)) selecting the days before the end only
SelectDaysExclusive(days, tslice) ==
    {day \in days : /\ DateLe(strptime(tslice.start), day)
                    /\ DateLe(day, strptime(tslice.end))
                    /\ day # strptime(tslice.end)}

\* sel(time=slice(start, end)): label slices include both ends
SelectDays(days, tslice) ==
    {day \in days : /\ DateLe(strptime(tslice.start), day)
                    /\ DateLe(day, strptime(tslice.end))}

\* __get_daily_interp_subset: the values by <<day, lat index, lon index>>
get_daily_interp_subset(var, tslice, depth, latm, lonm) ==
    LET r == _var2var_in_file(config, var)
        ds_name == r[2]
        ds == datasets[ds_name]
        var_in_file == r[1]
        arr == IF "3d" \in DOMAIN config.val[ds_name]
               THEN [t \in 1..Len(ds.time) |-> ds.data[var_in_file][t][depth + 1]]
               ELSE ds.data[var_in_file]
    IN  [c \in SelectDays(DailyIndex(ds.time), tslice) \X latm \X lonm |->
            DailyValue(arr, ds.time, c[1], c[2], c[3])]

\* the subset _get_subset extracts for a box
SubsetOf(box) ==
    LET ds == datasets[_var2var_in_file(config, vc.variable)[2]]
    IN  get_daily_interp_subset(vc.variable, time_slice, 0,
                                lat_mask(ds, box), lon_mask(ds, box))

RECURSIVE SumOver(_, _)
SumOver(f, S) ==
    IF S = {} THEN 0
    ELSE LET c == CHOOSE x \in S : TRUE
         IN  (IF f[c] = NaN THEN 0 ELSE f[c][1]) + SumOver(f, S \ {c})

\* np.nansum
nansum(a) == SumOver(a, DOMAIN a)

Finite(a) == {c \in DOMAIN a : a[c] # NaN}

\* the dict _get_stats returns: the reductions of an array without a value
\* raise, those of an array of not-a-numbers give not-a-number; otherwise the
\* values are exact: min and max as fractions
\* <<numerator, denominator>>, mean as the fraction sum / count, std as the
\* fraction its square is
StatsOf(a) ==
    LET F == Finite(a)
        n == Cardinality(F)
        sum == nansum(a)
        sumsq == SumOver([c \in F |-> Num(a[c][1] * a[c][1])], F)
    IN  IF DOMAIN a = {} THEN [error |-> "ValueError"]
        ELSE IF F = {} THEN [min |-> NaN, max |-> NaN, mean |-> NaN, std |-> NaN]
        ELSE
        [min |-> <<SetMin({a[c][1] : c \in F}), TimeGap>>,
         max |-> <<SetMax({a[c][1] : c \in F}), TimeGap>>,
         mean |-> <<sum, TimeGap * n>>,
         std |-> <<"sqrt", n * sumsq - sum * sum, TimeGap * TimeGap * n * n>>]

\* fx_parser.eval_fx, a pure function of the expression and the statistics
eval_fx(fx, st) == <<"eval_fx", fx, st>>

\* what a section builder leaves when a parameter it reads is missing
KeyError == [error |-> "KeyError"]

Has(variable_config, test_name, params) ==
    params \subseteq DOMAIN variable_config.tests[test_name]

\* __create_span_section with the bounds of each span in the other order
create_span_section_swapped(test_name, variable_config, st) ==
    IF ~ Has(variable_config, test_name,
             {"suspect_min", "suspect_max", "fail_min", "fail_max"})
    THEN KeyError
    ELSE
    [suspect_span |-> <<eval_fx(variable_config.tests[test_name]["suspect_max"], st),
                        eval_fx(variable_config.tests[test_name]["suspect_min"], st)>>,
     fail_span |-> <<eval_fx(variable_config.tests[test_name]["fail_max"], st),
                     eval_fx(variable_config.tests[test_name]["fail_min"], st)>>]

create_span_section(test_name, variable_config, st) ==
    IF ~ Has(variable_config, test_name,
             {"suspect_min", "suspect_max", "fail_min", "fail_max"})
    THEN KeyError
    ELSE
    [suspect_span |-> <<eval_fx(variable_config.tests[test_name]["suspect_min"], st),
                        eval_fx(variable_config.tests[test_name]["suspect_max"], st)>>,
     fail_span |-> <<eval_fx(variable_config.tests[test_name]["fail_min"], st),
                     eval_fx(variable_config.tests[test_name]["fail_max"], st)>>]

create_spike_section(test_name, variable_config, st) ==
    IF ~ Has(variable_config, test_name, {"suspect_threshold", "fail_threshold"})
    THEN KeyError
    ELSE
    [suspect_threshold |-> eval_fx(variable_config.tests[test_name]["suspect_threshold"], st),
     fail_threshold |-> eval_fx(variable_config.tests[test_name]["fail_threshold"], st)]

create_flat_line_section(test_name, variable_config, st) ==
    IF ~ Has(variable_config, test_name,
             {"suspect_threshold", "fail_threshold", "tolerance"})
    THEN KeyError
    ELSE
    [suspect_threshold |-> eval_fx(variable_config.tests[test_name]["suspect_threshold"], st),
     fail_threshold |-> eval_fx(variable_config.tests[test_name]["fail_threshold"], st),
     tolerance |-> eval_fx(variable_config.tests[test_name]["tolerance"], st)]

\* the section of location_test, were its bbox evaluated as an expression
\* against the statistics of the call
create_location_section_evaluated(test_name, variable_config) ==
    IF ~ Has(variable_config, test_name, {"bbox"})
    THEN KeyError
    ELSE [bbox |-> eval_fx(variable_config.tests[test_name]["bbox"], stats)]

create_location_section(test_name, variable_config) ==
    IF ~ Has(variable_config, test_name, {"bbox"})
    THEN KeyError
    ELSE [bbox |-> variable_config.tests[test_name]["bbox"]]

create_rate_of_change_section(test_name, variable_config, st) ==
    IF ~ Has(variable_config, test_name, {"threshold"})
    THEN KeyError
    ELSE [threshold |-> eval_fx(variable_config.tests[test_name]["threshold"], st)]

_create_test_section(test_name, variable_config, test_limits) ==
    IF test_name = "spike_test"
    THEN create_spike_section(test_name, variable_config, test_limits)
    ELSE IF test_name = "location_test"
    THEN create_location_section(test_name, variable_config)
    ELSE IF test_name = "rate_of_change_test"
    THEN create_rate_of_change_section(test_name, variable_config, test_limits)
    ELSE IF test_name = "flat_line_test"
    THEN create_flat_line_section(test_name, variable_config, test_limits)
    ELSE create_span_section(test_name, variable_config, test_limits)

\* test_configs of create_config without the tests named location_test
test_configs_without_location(variable_config, st) ==
    [name \in DOMAIN variable_config.tests \ {"location_test"} |->
        _create_test_section(name, variable_config, st)]

\* test_configs of create_config
test_configs(variable_config, st) ==
    [name \in DOMAIN variable_config.tests |->
        _create_test_section(name, variable_config, st)]

\* the dict create_config returns
qc_config(variable_config, st) ==
    [v \in {variable_config.variable} |->
        [qartod |-> test_configs(variable_config, st)]]

\* the arrays of the climatology files: one row per latitude, one column
\* per longitude, at each of the two time coordinates
Grid(a, b, c, d) == <<(<<a, b>>), (<<c, d>>)>>

ArrZero == <<Grid(Num(0), Num(0), Num(0), Num(0)), Grid(Num(0), Num(0), Num(0), Num(0))>>
ArrNaN == <<Grid(NaN, NaN, NaN, NaN), Grid(NaN, NaN, NaN, NaN)>>
ArrZeroCell == <<Grid(Num(0), Num(2), Num(3), Num(4)), Grid(Num(0), Num(4), Num(5), Num(8))>>
ArrCancel == <<Grid(Num(1), Num(-1), NaN, Num(5)), Grid(Num(1), Num(-1), NaN, Num(5))>>
ArrEndOnly == <<Grid(Num(0), Num(0), Num(0), Num(0)), Grid(Num(3), Num(4), Num(5), Num(8))>>
ArrNaNCell == <<Grid(NaN, Num(2), Num(3), Num(4)), Grid(NaN, Num(4), Num(5), Num(8))>>

Arrays == {ArrPos, ArrZero, ArrNaN, ArrZeroCell, ArrCancel, ArrEndOnly, ArrNaNCell}

\* the files on disk: f1 with any of the arrays, f2 3-d
CreatorFiles ==
    {[f \in {"f1", "f2"} |->
        IF f = "f1" THEN File(2019, FALSE, a) ELSE File(2021, TRUE, ArrPos)]
     : a \in Arrays}
    \cup {[f \in {"f1", "f2"} |->
        IF f = "f1" THEN File(2020, FALSE, ArrPos) ELSE File(2021, TRUE, ArrPos)]}

\* the registry documents of the creators: one 2-d dataset; a 2-d dataset
\* for sal listed before a 3-d dataset for temp and sal
CreatorDocs ==
    {<<Entry("A", "f1", [temp |-> "TEMP"])>>,
     <<Entry("A", "f1", [sal |-> "SAL"]),
       Entry("B", "f2", [temp |-> "t_an", sal |-> "s_an"])>>}

\* bounding boxes <<xmin, ymin, xmax, ymax>>: one grid cell, one row of grid
\* cells, no grid cell, the globe
Boxes ==
    {<<-12, -12, -8, -8>>, <<-12, -12, 12, -8>>, <<-3, -3, 3, 3>>,
     <<-1800, -900, 1800, 900>>}

Spike ==
    [spike_test |->
        [suspect_threshold |-> <<"std">>,
         fail_threshold |-> <<"2", " ", "*", " ", "std">>]]

SpanParams ==
    [suspect_min |-> <<"mean">>, suspect_max |-> <<"max">>,
     fail_min |-> <<"1">>, fail_max |-> <<"max", " ", "*", " ", "2">>]

\* the tests of the variable configs; a bbox parameter is a list of numbers,
\* written as the sequence of its elements
TestSets ==
    {GrossRange,
     Spike,
     [location_test |-> [bbox |-> <<"-80", "30", "-70", "40">>]],
     [rate_of_change_test |-> [threshold |-> <<"2", " ", "*", " ", "std">>],
      flat_line_test |-> [suspect_threshold |-> <<"1">>, fail_threshold |-> <<"2">>,
                          tolerance |-> <<"std", " ", "/", " ", "2">>]],
     [my_test |-> SpanParams],
     [Spike_Test |-> Spike.spike_test],
     [gross_range_test |-> [suspect_min |-> <<"min">>, suspect_max |-> <<"max">>,
                            fail_min |-> <<"min">>]],
     [spike_test |-> [suspect_threshold |-> <<"std">>, fail_threshold |-> <<"max">>,
                      tolerance |-> <<"1">>, bbox |-> <<"0", "0", "1", "1">>],
      gross_range_test |-> GrossRange.gross_range_test,
      location_test |-> [bbox |-> <<"-80", "30", "-70", "40">>,
                         suspect_min |-> <<"min">>]]}

\* the variable configs given to create_config, each with the deployment
\* window it is written from: every test set on one box and window, and
\* every variable, box and window with one test set
CallInputs ==
    {<<w, VariableConfig("temp", <<-12, -12, 12, -8>>, w, t)>> :
        w \in {<<(<<2020, 1, 1>>), (<<2020, 1, 2>>)>>}, t \in TestSets}
    \cup {<<w, VariableConfig(v, b, w, Spike)>> :
        w \in Windows, v \in {"temp", "sal", "chl"}, b \in Boxes}

CreatorInit ==
    /\ regDoc \in CreatorDocs
    /\ files \in CreatorFiles
    /\ CreatorBuilt
    /\ window = None /\ vc = None /\ pc = "idle"
    /\ resolved = None /\ time_slice = None
    /\ SubsetIdle

\* create_config is called with a QcVariableConfig, whose construction
\* validated the expressions of its tests
CreateConfig ==
    /\ pc = "idle"
    /\ \E in \in CallInputs :
        /\ ValidateTests(in[2].tests)
        /\ window' = in[1]
        /\ vc' = in[2]
    /\ pc' = "time_range"
    /\ UNCHANGED <<resolved, time_slice, subsetVars>>

\* _get_subset up to its loop; sel raises when a bound of the slice is no
\* date of the calendar
FirstSubset ==
    /\ pc = "subset"
    /\ bbox' = vc.bbox
    /\ pads' = 0
    /\ IF ValidDate(strptime(time_slice.start)) /\ ValidDate(strptime(time_slice.end))
       THEN /\ subset' = SubsetOf(vc.bbox)
            /\ pc' = "loop"
       ELSE /\ subset' = None
            /\ pc' = "DateError"
    /\ UNCHANGED <<window, vc, resolved, time_slice, stats, statsCalls, result>>

\* one iteration of the loop, were the padded box written into the caller's
\* variable_config
PadAndRetryInPlace ==
    /\ pc = "loop"
    /\ nansum(subset) = 0
    /\ bbox' = apply_bbox_pad(bbox, pad_delta)
    /\ subset' = SubsetOf(bbox')
    /\ pads' = Min2(pads + 1, MaxPadsCounted)
    /\ vc' = [vc EXCEPT !.bbox = bbox']
    /\ UNCHANGED <<window, pc, resolved, time_slice, stats, statsCalls, result>>

\* one iteration of the loop of _get_subset
PadAndRetry ==
    /\ pc = "loop"
    /\ nansum(subset) = 0
    /\ bbox' = apply_bbox_pad(bbox, pad_delta)
    /\ subset' = SubsetOf(bbox')
    /\ pads' = Min2(pads + 1, MaxPadsCounted)
    /\ UNCHANGED <<window, vc, pc, resolved, time_slice, stats, statsCalls, result>>

\* the loop of _get_subset ends and _get_stats returns the statistics
ReturnStats ==
    /\ pc = "loop"
    /\ nansum(subset) # 0
    /\ stats' = StatsOf(subset)
    /\ statsCalls' = statsCalls + 1
    /\ pc' = "sections"
    /\ UNCHANGED <<window, vc, resolved, time_slice, bbox, subset, pads, result>>

\* create_config builds the sections and returns; a section builder raises
\* KeyError when a parameter it reads is missing
CreateSections ==
    /\ pc = "sections"
    /\ IF \A name \in DOMAIN test_configs(vc, stats) :
              test_configs(vc, stats)[name] # KeyError
       THEN /\ result' = qc_config(vc, stats)
            /\ pc' = "done"
       ELSE /\ result' = None
            /\ pc' = "KeyError"
    /\ UNCHANGED <<window, vc, resolved, time_slice, bbox, subset, pads, stats, statsCalls>>

\* the call is over: its locals are gone
Return ==
    /\ pc \in {"done", "KeyError", "TypeError", "DateError"}
    /\ pc' = "idle"
    /\ window' = None /\ vc' = None /\ resolved' = None /\ time_slice' = None
    /\ bbox' = None /\ subset' = None /\ pads' = 0
    /\ stats' = None /\ statsCalls' = 0 /\ result' = None

(***************************************************************************)
(* PandasStore.save (src/ioos_qc/stores.py)                                *)
(***************************************************************************)

\* largest number of collected results of a store
MaxResults == 2

\* the collected results: stream_id, package and test are strings, function
\* is the test's function; axes names the axes the result has values of
StreamIds == {<<"temp">>, <<"sal">>}
TestNames == {<<"gross_range_test">>, <<"spike_test">>}
FunctionOf(test) == <<"function", test>>

CollectedResults ==
    {[stream_id |-> st, package |-> <<"qartod">>, test |-> t,
      function |-> FunctionOf(t), axes |-> ax]
     : st \in StreamIds, t \in TestNames, ax \in {{}, {"t", "z", "x", "y"}}}

\* an optional list argument: not given (None), or a list of identifiers
NoList == [given |-> FALSE, items |-> {}]
List(S) == [given |-> TRUE, items |-> S]

FilterItems == StreamIds \cup TestNames \cup {FunctionOf(t) : t \in TestNames}

Filters == {NoList, List({})} \cup {List({x}) : x \in FilterItems}

\* PandasStore.axes, the default
axes == [t |-> <<"time">>, z |-> <<"z">>, y |-> <<"lat">>, x |-> <<"lon">>]

\* cf_safe_name: a name that starts with a digit or an underscore gets v_ in
\* front, and every character that is no letter, digit or underscore becomes
\* an underscore
cf_safe_name(name) ==
    LET n == IF name # <<>> /\ name[1] \in Digits \cup {"_"}
             THEN <<"v_">> \o name ELSE name
    IN  [k \in 1..Len(n) |-> IF n[k] \in {".", "-", " "} THEN "_" ELSE n[k]]

\* a in b for two strings: a is a substring of b
InStr(a, b) == \E i \in 0..(Len(b) - Len(a)) : SubSeq(b, i + 1, i + Len(a)) = a

\* name in df
InDf(name, d) == \E k \in 1..Len(d) : d[k].name = name

\* df[name] = values, for a name that is no column yet
AddColumn(d, name, values) == Append(d, [name |-> name, values |-> values])

\* the four axis columns a result adds to the dataframe
RECURSIVE AddAxes(_, _, _, _)
AddAxes(d, cr, i, order) ==
    IF order = <<>> THEN d
    ELSE LET a == Head(order)
             d1 == IF ~ InDf(axes[a], d) /\ a \in cr.axes
                   THEN AddColumn(d, axes[a], <<i, a>>) ELSE d
         IN  AddAxes(d1, cr, i, Tail(order))

\* the data column and the QC results column a result adds
AddResultColumns(d, cr, i) ==
    LET d1 == IF write_data /\ ~ InDf(cr.stream_id, d)
              THEN AddColumn(d, cr.stream_id, <<i, "data">>) ELSE d
        column_name == cf_safe_name(cr.stream_id \o <<".">> \o cr.package
                                      \o <<".">> \o cr.test)
    IN  IF ~ InDf(column_name, d1)
        THEN AddColumn(d1, column_name, <<i, "results">>) ELSE d1

StoreInit ==
    /\ collected_results \in UNION {[1..n -> CollectedResults] : n \in 1..MaxResults}
    /\ write_data \in BOOLEAN
    /\ include \in Filters
    /\ exclude \in Filters
    /\ df = <<>>
    /\ crIdx = 1
    /\ savePc = "loop"

\* one iteration of the loop of save. The last operand of the exclusion test
\* is the chain cr.test in cr.test in include: cr.test in cr.test and
\* cr.test in include, which raises TypeError when include is None
SaveStep ==
    /\ savePc = "loop"
    /\ crIdx <= Len(collected_results)
    /\ LET cr == collected_results[crIdx]
           d1 == AddAxes(df, cr, crIdx, <<"t", "z", "x", "y">>)
       IN  IF include.given /\ (/\ cr.function \notin include.items
                                /\ cr.stream_id \notin include.items
                                /\ cr.test \notin include.items)
           THEN df' = d1 /\ crIdx' = crIdx + 1 /\ savePc' = savePc
           ELSE IF exclude.given /\ (\/ cr.function \in exclude.items
                                     \/ cr.stream_id \in exclude.items)
           THEN df' = d1 /\ crIdx' = crIdx + 1 /\ savePc' = savePc
           ELSE IF exclude.given /\ InStr(cr.test, cr.test) /\ ~ include.given
           THEN df' = d1 /\ crIdx' = crIdx /\ savePc' = "TypeError"
           ELSE IF exclude.given /\ InStr(cr.test, cr.test)
                     /\ cr.test \in include.items
           THEN df' = d1 /\ crIdx' = crIdx + 1 /\ savePc' = savePc
           ELSE /\ df' = AddResultColumns(d1, cr, crIdx)
                /\ crIdx' = crIdx + 1 /\ savePc' = savePc
    /\ UNCHANGED <<collected_results, write_data, include, exclude>>

\* save returns the dataframe
SaveReturn ==
    /\ savePc = "loop"
    /\ crIdx > Len(collected_results)
    /\ savePc' = "returned"
    /\ UNCHANGED <<collected_results, write_data, include, exclude, df, crIdx>>

(***************************************************************************)
(* NetcdfStore.save (src/ioos_qc/stores.py)                                *)
(***************************************************************************)

\* largest number of (variable, module, test) entries of the results of one
\* call of save
MaxSaveEntries == 2

\* the ioos_qc_module, ioos_qc_test and ioos_qc_target attributes of a
\* variable; the other attributes save writes are functions of these
QcAttrs(modu, testname, vname) ==
    [ioos_qc_module |-> modu, ioos_qc_test |-> testname, ioos_qc_target |-> vname]

NoAttrs == QcAttrs(<<>>, <<>>, <<>>)

\* a variable of the dataset: its name, the three attributes, its values
\* and the names in its ancillary_variables attribute
NcVariable(name, attrs, values) ==
    [name |-> name, attrs |-> attrs, values |-> values, ancillary_variables |-> {}]

NcNames(d) == {d[k].name : k \in 1..Len(d)}

NcIndex(d, name) == CHOOSE k \in 1..Len(d) : d[k].name = name

\* ncd.get_variables_by_attributes: the positions of the matching variables
get_variables_by_attributes(d, modu, testname, vname) ==
    {k \in 1..Len(d) : d[k].attrs = QcAttrs(modu, testname, vname)}

\* the test packages import_module finds
Packages == {<<"qartod">>}

\* the name of the QC variable of an entry, were the name of a matching
\* variable not used
qcvarname_derived(d, vname, modu, testname) ==
    cf_safe_name(vname \o <<".">> \o modu \o <<".">> \o testname)

\* the name of the QC variable of an entry: the name of the last matching
\* variable, or the name derived from the entry when none matches
qcvarname_of(d, vname, modu, testname) ==
    LET qcvars == get_variables_by_attributes(d, modu, testname, vname)
    IN  IF qcvars = {}
        THEN cf_safe_name(vname \o <<".">> \o modu \o <<".">> \o testname)
        ELSE d[SetMax(qcvars)].name

\* the body of the loops of save for one entry of results
SaveEntry(d, e) ==
    IF e.vname \notin NcNames(d) THEN d
    ELSE IF e.modu \notin Packages THEN d
    ELSE LET qcvarname == qcvarname_of(d, e.vname, e.modu, e.testname)
             d1 == IF qcvarname \notin NcNames(d)
                   THEN Append(d, NcVariable(qcvarname, NoAttrs, 0))
                   ELSE d
             v == NcIndex(d1, qcvarname)
             d2 == [d1 EXCEPT ![v].values = e.testresults,
                              ![v].attrs = QcAttrs(e.modu, e.testname, e.vname)]
             source_var == NcIndex(d2, e.vname)
         IN  [d2 EXCEPT ![source_var].ancillary_variables = @ \cup {qcvarname}]

RECURSIVE SaveAll(_, _, _)
SaveAll(d, results, i) ==
    IF i > Len(results) THEN d
    ELSE SaveAll(SaveEntry(d, results[i]), results, i + 1)

\* the names of the data variables: the QC variables of sea.temp and of
\* sea_temp get the same derived name
Temp == <<"temp">>
SeaDotTemp == <<"sea", ".", "temp">>
SeaTemp == <<"sea", "_", "temp">>

\* the keys of the entries of results: variable, module, test; chl is no
\* variable of the datasets, nomodule no test package
EntryKeys ==
    {<<vn, <<"qartod">>, <<"spike_test">>>> : vn \in {Temp, SeaDotTemp, SeaTemp, <<"chl">>}}
    \cup {<<Temp, <<"nomodule">>, <<"spike_test">>>>}

\* the entry of a key in the results of run number r: its test results are
\* told from those of the other keys and runs
ResultEntry(key, r) ==
    [vname |-> key[1], modu |-> key[2], testname |-> key[3],
     testresults |-> <<r, key[1]>>]

\* results as the sequence of its entries in the order of iteration; the
\* keys of a dict are distinct
NcResults ==
    {[i \in 1..Len(ks) |-> ResultEntry(ks[i], r)] :
        ks \in {q \in UNION {[1..n -> EntryKeys] : n \in 1..MaxSaveEntries} :
                  \A i, j \in 1..Len(q) : i # j => q[i] # q[j]},
        r \in {1, 2}}

DataVariables ==
    <<NcVariable(Temp, NoAttrs, 0), NcVariable(SeaDotTemp, NoAttrs, 0),
      NcVariable(SeaTemp, NoAttrs, 0)>>

\* the datasets save is given: the data variables alone; with a variable
\* that has the derived name of a QC variable and no QC attributes; with a
\* QC variable of temp named flags; with two QC variables of temp
NcDatasets ==
    {DataVariables,
     Append(DataVariables,
            NcVariable(<<"temp", "_", "qartod", "_", "spike_test">>, NoAttrs, 0)),
     Append(DataVariables,
            NcVariable(<<"flags">>, QcAttrs(<<"qartod">>, <<"spike_test">>, Temp), 0)),
     DataVariables \o
        <<NcVariable(<<"flags">>, QcAttrs(<<"qartod">>, <<"spike_test">>, Temp), 0),
          NcVariable(<<"flags2">>, QcAttrs(<<"qartod">>, <<"spike_test">>, Temp), 0)>>}

NcInit ==
    /\ ncd \in NcDatasets
    /\ ncCreated = {}
    /\ ncWritten = <<>>

\* a call of save on the dataset
NetcdfSave ==
    \E results \in NcResults :
        /\ ncd' = SaveAll(ncd, results, 1)
        /\ ncCreated' = NcNames(ncd') \ NcNames(ncd)
        /\ ncWritten' = results

NcIdle == ncd = <<>> /\ ncCreated = {} /\ ncWritten = <<>>

(***************************************************************************)
(* check_timestamps (src/ioos_qc/utils.py)                                 *)
(***************************************************************************)

\* largest number of timestamps, and the latest timestamp
MaxTimes == 3
MaxTime == 3

\* np.diff
diff(a) == [i \in 1..(Len(a) - 1) |-> a[i + 1] - a[i]]

\* sorted: insertion of each element in turn into the sorted elements before it
RECURSIVE insert(_, _)
insert(a, x) ==
    IF a = <<>> THEN <<x>>
    ELSE IF x < Head(a) THEN <<x>> \o a
    ELSE <<Head(a)>> \o insert(Tail(a), x)

RECURSIVE sorted(_)
sorted(a) == IF a = <<>> THEN <<>> ELSE insert(sorted(SubSeq(a, 1, Len(a) - 1)), a[Len(a)])

\* max_time_interval: None, or an interval
NoInterval == [given |-> FALSE, value |-> 0]
Interval(v) == [given |-> TRUE, value |-> v]

\* check_timestamps without its test for duplicate times
check_timestamps_unequal_only(t, mti) ==
    LET time_diff == diff(t)
        sort_diff == diff(sorted(t))
    IN  IF time_diff # sort_diff
        THEN FALSE
        ELSE IF mti.given /\ \E i \in 1..Len(sort_diff) : sort_diff[i] > mti.value
        THEN FALSE
        ELSE TRUE

check_timestamps(t, mti) ==
    LET time_diff == diff(t)
        sort_diff == diff(sorted(t))
        zero == 0
    IN  IF time_diff # sort_diff \/ \E i \in 1..Len(sort_diff) : sort_diff[i] = zero
        THEN FALSE
        ELSE IF mti.given /\ \E i \in 1..Len(sort_diff) : sort_diff[i] > mti.value
        THEN FALSE
        ELSE TRUE

TsInit ==
    /\ times \in UNION {[1..n -> 0..MaxTime] : n \in 0..MaxTimes}
    /\ max_time_interval \in {NoInterval} \cup {Interval(v) : v \in 0..MaxTime}
    /\ tsResult = "new"

\* a call of check_timestamps
CheckTimestamps ==
    /\ tsResult = "new"
    /\ tsResult' = IF check_timestamps(times, max_time_interval) THEN "True" ELSE "False"
    /\ UNCHANGED <<times, max_time_interval>>

TsIdle == times = <<>> /\ max_time_interval = NoInterval /\ tsResult = "off"

StoreIdle ==
    /\ collected_results = <<>> /\ write_data = FALSE
    /\ include = NoList /\ exclude = NoList
    /\ df = <<>> /\ crIdx = 1 /\ savePc = "off"

UtilIdle == StoreIdle /\ NcIdle /\ TsIdle

CallIdle ==
    /\ regDoc = <<>> /\ files = <<>> /\ config = EmptyDict
    /\ datasets = <<>> /\ dataset_years = <<>>
    /\ window = <<>> /\ vc = <<>> /\ pc = "off"
    /\ resolved = None /\ time_slice = None
    /\ SubsetIdle

FxIdle == fxName = "suspect_min" /\ fxDef = <<>> /\ fxResult = "off"
PadIdle == padIn = <<0, 0, 0, 0>> /\ padDelta = 0 /\ padOut = padIn /\ padK = MaxPadCalls

(***************************************************************************)
(* Properties of the expression validation                                 *)
(***************************************************************************)

\* a decimal floating-point literal: digits with an optional sign, fraction
\* and exponent
FloatLiteral(tok) == FloatRun("start", tok, 1) \in {"int", "frac", "expint"}

GrammarToken(tok) ==
    \/ FloatLiteral(tok)
    \/ tok \in allowed_stats \cup allowed_operators \cup allowed_groupings

\* C1 (as claimed): construction succeeds when every space-separated token
\* of the expression is a floating-point literal, a stat name, an operator or
\* a parenthesis, and fails when the expression holds any other token;
\* a parameter named bbox is not checked.
C1_OnlyGrammarTokensAccepted ==
    fxResult # "new" =>
        (fxResult = "ok" <=>
            (\/ fxName = "bbox"
             \/ \A k \in 1..Len(Split(fxDef)) : GrammarToken(Split(fxDef)[k])))

(***************************************************************************)
(* Properties of the padding                                               *)
(***************************************************************************)

InGlobe(box) ==
    /\ box[1] >= -1800 /\ box[1] <= 1800
    /\ box[3] >= -1800 /\ box[3] <= 1800
    /\ box[2] >= -900 /\ box[2] <= 900
    /\ box[4] >= -900 /\ box[4] <= 900

\* C3 (as claimed): whatever the input box and the pad, the returned box
\* lies within [-180, 180] x [-90, 90].
C3_PadAlwaysInGlobe == padK >= 1 => InGlobe(padOut)

\* C3 (amended): the returned minima are never below -180 / -90 and the
\* returned maxima never above 180 / 90, whatever the input; the whole
\* returned box lies within [-180, 180] x [-90, 90] when the input box does
\* and the pad is not negative.
C3_PadClamped ==
    padK >= 1 =>
        /\ padOut[1] >= -1800 /\ padOut[2] >= -900
        /\ padOut[3] <= 1800 /\ padOut[4] <= 900
        /\ (InGlobe(padIn) /\ padDelta >= 0) => InGlobe(padOut)

C3_Witness ==
    /\ padK = 1 /\ padDelta = 5 /\ InGlobe(padIn)
    /\ padIn[1] = -1798 /\ padOut[1] = -1800
    /\ padIn[4] = 897 /\ padOut[4] = 900

\* C4: for a box within [-180, 180] x [-90, 90] and a pad that is not
\* negative, the padded box contains the box it was made from, and after k
\* paddings each side is the first side moved outward by k * pad, clamped.
C4_PadMonotonic ==
    (InGlobe(padIn) /\ padDelta >= 0) =>
        /\ padOut[1] = Max2(-1800, padIn[1] - padK * padDelta)
        /\ padOut[2] = Max2(-900, padIn[2] - padK * padDelta)
        /\ padOut[3] = Min2(1800, padIn[3] + padK * padDelta)
        /\ padOut[4] = Min2(900, padIn[4] + padK * padDelta)
        /\ padOut[1] <= padIn[1] /\ padOut[2] <= padIn[2]
        /\ padOut[3] >= padIn[3] /\ padOut[4] >= padIn[4]

\* C4: each padding contains the box it was applied to.
C4_Witness ==
    /\ padK = 2 /\ padDelta = 7 /\ InGlobe(padIn)
    /\ padIn[1] = 0 /\ padOut[1] = -14
    /\ padIn[3] = 0 /\ padOut[3] = 14
    /\ padIn[2] = -898 /\ padOut[2] = -900

(***************************************************************************)
(* Properties of the resolution and of the time range                      *)
(***************************************************************************)

\* the entries of the registry document that declare the variable
Declaring(var) == {i \in 1..Len(regDoc) : var \in DOMAIN regDoc[i]["variables"]}

\* C6 (as claimed): resolution returns the file-local name and the dataset
\* name of the first entry, in the order of the registry document, whose
\* variable map contains the logical name.
C6_FirstListed ==
    (pc = "returned" /\ Declaring(vc.variable) # {}) =>
        LET i == SetMin(Declaring(vc.variable))
        IN  resolved = <<regDoc[i]["variables"][vc.variable], regDoc[i]["name"]>>

FirstEntry(n) == SetMin({i \in 1..Len(regDoc) : regDoc[i]["name"] = n})
LastEntry(n) == SetMax({i \in 1..Len(regDoc) : regDoc[i]["name"] = n})

\* the dataset names whose entry in force (the last entry listed under the
\* name) declares the variable
DeclaringNames(var) ==
    {n \in {regDoc[i]["name"] : i \in 1..Len(regDoc)} :
        var \in DOMAIN regDoc[LastEntry(n)]["variables"]}

\* C6 (amended): resolution returns the first dataset name, in the order in
\* which the names first appear in the registry document, whose variable map
\* in force (that of the last entry listed under the name) contains the
\* logical name, with the file-local name of that map; when the dataset
\* names of the document are distinct this is the first listed entry that
\* declares the variable.
C6_FirstRegistered ==
    pc = "returned" =>
        /\ DeclaringNames(vc.variable) # {} =>
               LET n == CHOOSE m \in DeclaringNames(vc.variable) :
                            \A o \in DeclaringNames(vc.variable) :
                                FirstEntry(m) <= FirstEntry(o)
               IN  resolved = <<regDoc[LastEntry(n)]["variables"][vc.variable], n>>
        /\ ((\A i, j \in 1..Len(regDoc) :
                 regDoc[i]["name"] = regDoc[j]["name"] => i = j)
             /\ Declaring(vc.variable) # {}) =>
               LET i == SetMin(Declaring(vc.variable))
               IN  resolved = <<regDoc[i]["variables"][vc.variable],
                                regDoc[i]["name"]>>

C6_Witness ==
    /\ pc = "returned" /\ Len(regDoc) = 2
    /\ regDoc[1]["name"] = "B" /\ regDoc[2]["name"] = "A"
    /\ vc.variable = "temp"
    /\ regDoc[1]["variables"] = [temp |-> "t_an", sal |-> "s_an"]
    /\ regDoc[2]["variables"] = [temp |-> "TEMP"]
    /\ resolved = <<"t_an", "B">>

\* C7: the time slice starts at (reference year, month and day of
\* start_time) and ends at (reference year, month and day of end_time), the
\* reference year being the year of the first time coordinate of the dataset
\* the variable resolved to; the years of the deployment are not used.
C7_SliceUsesReferenceYear ==
    pc = "subset" =>
        LET year == datasets[resolved[2]].time[1][1]
        IN  /\ strptime(time_slice.start) = <<year, window[1][2], window[1][3]>>
            /\ strptime(time_slice.end) = <<year, window[2][2], window[2][3]>>

C7_Witness ==
    /\ pc = "subset" /\ Len(regDoc) = 2
    /\ resolved[2] = "B" /\ regDoc[1]["name"] = "A"
    /\ dataset_years["A"] = 2019 /\ dataset_years["B"] = 2021
    /\ window = <<(<<2020, 12, 31>>), (<<2021, 1, 2>>)>>
    /\ time_slice = [start |-> <<"2", "0", "2", "1", "-", "1", "2", "-", "3", "1">>,
                     end |-> <<"2", "0", "2", "1", "-", "1", "-", "2">>]

(***************************************************************************)
(* Properties of create_config                                             *)
(***************************************************************************)

StatsReturned == pc \in {"sections", "done", "KeyError"}

\* C2 (as claimed): when the first subset sums to zero the loop of
\* _get_subset pads at least once, and it does not run forever: it is never
\* about to run another iteration when padding no longer changes the box.
C2_PaddingTerminates ==
    /\ (StatsReturned /\ nansum(SubsetOf(vc.bbox)) = 0) => pads >= 1
    /\ (pc = "loop" /\ apply_bbox_pad(bbox, pad_delta) = bbox) => nansum(subset) # 0

\* C5 (as claimed): the box is widened only while the subset holds no data
\* value: when the subset of the box as given holds a data value the loop
\* does not pad, whatever the values are; and the subset returned holds data.
C5_PadsOnlyWhenEmpty ==
    /\ (pc \in {"loop", "sections", "done", "KeyError"}
         /\ Finite(SubsetOf(vc.bbox)) # {}) => pads = 0
    /\ StatsReturned => Finite(subset) # {}

\* the end_time of the deployment in the year of the dataset
EndDay == <<datasets[resolved[2]].time[1][1], window[2][2], window[2][3]>>

\* C8 (as claimed): the subset the statistics are computed from holds no
\* value of the end_time day or of a later day.
C8_EndExclusive ==
    StatsReturned => \A c \in DOMAIN subset : ~ DateLe(EndDay, c[1])

\* C9: the section of a test has the shape its name selects by exact match:
\* spike_test {suspect_threshold, fail_threshold}, location_test {bbox},
\* rate_of_change_test {threshold}, flat_line_test {suspect_threshold,
\* fail_threshold, tolerance}, any other name {suspect_span, fail_span} with
\* suspect_span = [eval(suspect_min), eval(suspect_max)] and
\* fail_span = [eval(fail_min), eval(fail_max)].
C9_SectionShapeByName ==
    pc = "done" =>
        \A name \in DOMAIN vc.tests :
            LET sec == result[vc.variable].qartod[name]
                p == vc.tests[name]
            IN  CASE name = "spike_test" ->
                       /\ DOMAIN sec = {"suspect_threshold", "fail_threshold"}
                       /\ sec.suspect_threshold = eval_fx(p.suspect_threshold, stats)
                       /\ sec.fail_threshold = eval_fx(p.fail_threshold, stats)
                  [] name = "location_test" ->
                       /\ DOMAIN sec = {"bbox"}
                       /\ sec.bbox = p.bbox
                  [] name = "rate_of_change_test" ->
                       /\ DOMAIN sec = {"threshold"}
                       /\ sec.threshold = eval_fx(p.threshold, stats)
                  [] name = "flat_line_test" ->
                       /\ DOMAIN sec = {"suspect_threshold", "fail_threshold", "tolerance"}
                       /\ sec.suspect_threshold = eval_fx(p.suspect_threshold, stats)
                       /\ sec.fail_threshold = eval_fx(p.fail_threshold, stats)
                       /\ sec.tolerance = eval_fx(p.tolerance, stats)
                  [] OTHER ->
                       /\ DOMAIN sec = {"suspect_span", "fail_span"}
                       /\ sec.suspect_span = <<eval_fx(p.suspect_min, stats),
                                               eval_fx(p.suspect_max, stats)>>
                       /\ sec.fail_span = <<eval_fx(p.fail_min, stats),
                                            eval_fx(p.fail_max, stats)>>

C9_Witness ==
    /\ pc = "done"
    /\ DOMAIN vc.tests = {"my_test"}
    /\ result[vc.variable].qartod["my_test"].suspect_span =
           <<eval_fx(<<"mean">>, stats), eval_fx(<<"max">>, stats)>>

\* C10: create_config returns a mapping whose only key is the variable's
\* name, whose value has the only key qartod, whose value has one entry per
\* test of variable_config.tests; _get_stats was called once and every
\* evaluated value of every section was evaluated against the statistics it
\* returned.
C10_OutputShape ==
    pc = "done" =>
        /\ DOMAIN result = {vc.variable}
        /\ DOMAIN result[vc.variable] = {"qartod"}
        /\ DOMAIN result[vc.variable].qartod = DOMAIN vc.tests
        /\ statsCalls = 1
        /\ stats = StatsOf(subset)
        /\ \A name \in DOMAIN result[vc.variable].qartod :
               LET sec == result[vc.variable].qartod[name]
               IN  \A k \in DOMAIN sec :
                       \/ k = "bbox"
                       \/ /\ k \in {"suspect_span", "fail_span"}
                          /\ sec[k][1][3] = stats /\ sec[k][2][3] = stats
                       \/ /\ k \notin {"suspect_span", "fail_span"}
                          /\ sec[k][3] = stats

C10_Witness ==
    /\ pc = "done"
    /\ DOMAIN vc.tests = {"spike_test", "gross_range_test", "location_test"}
    /\ DOMAIN result[vc.variable].qartod = DOMAIN vc.tests

\* C11: the calls of create_config leave the creator's registry, loaded
\* datasets and reference years as construction made them, and a call leaves
\* the variable_config it was given, its bbox included, as it was given, also
\* when the loop of _get_subset pads the box.
C11_CallsLeaveCreatorAndConfig ==
    /\ []CreatorBuilt
    /\ [][/\ config' = config /\ datasets' = datasets
          /\ dataset_years' = dataset_years
          /\ (pc \notin {"idle", "done", "KeyError", "TypeError", "DateError"})
                => vc' = vc]_vars

C11_Witness ==
    /\ pc = "done"
    /\ pads >= 1
    /\ bbox # vc.bbox
    /\ bbox = apply_bbox_pad(apply_bbox_pad(vc.bbox, pad_delta), pad_delta)
    /\ CreatorBuilt

\* the subset is entirely not-a-number
AllNaN(a) == DOMAIN a # {} /\ Finite(a) = {}

\* C12 (as claimed): when the subset of the box and window as given is
\* entirely not-a-number, the statistics are computed from it, so the box is
\* not padded and the call never fails to come back, and the statistics
\* create_config builds the thresholds from are not-a-number.
C12_AllNaNGivesNaNStats ==
    (pc \in {"loop", "sections", "done", "KeyError"} /\ AllNaN(SubsetOf(vc.bbox))) =>
        /\ pads = 0
        /\ StatsReturned =>
              stats = [min |-> NaN, max |-> NaN, mean |-> NaN, std |-> NaN]

\* no dataset of the registry document maps the variable of the call
Unmapped ==
    /\ pc \notin {"idle", "off"}
    /\ \A i \in 1..Len(regDoc) : vc.variable \notin DOMAIN regDoc[i]["variables"]

\* C13: a call of create_config for a variable that no dataset maps fails
\* with an error that reaches the caller: the call gets no further than
\* _get_time_range, so no subset is extracted, the loop of _get_subset is not
\* entered, no statistics are computed and nothing is returned.
C13_UnmappedVariableFails ==
    Unmapped =>
        /\ pc \in {"time_range", "TypeError"}
        /\ resolved = None /\ time_slice = None
        /\ bbox = None /\ subset = None /\ pads = 0
        /\ stats = None /\ statsCalls = 0 /\ result = None

C13_Witness ==
    /\ Unmapped
    /\ pc = "TypeError"
    /\ vc.variable = "chl"
    /\ Len(regDoc) = 2

\* C14: the section of location_test holds the bbox of the test's
\* parameters as given: it is no value of the expression evaluator and does
\* not involve the statistics, and the construction of the variable_config
\* accepted the tests without validating the tokens of the bbox.
C14_LocationBboxPassedThrough ==
    (pc = "done" /\ "location_test" \in DOMAIN vc.tests) =>
        LET given == vc.tests["location_test"]["bbox"]
            sec == result[vc.variable].qartod["location_test"]
        IN  /\ sec = [bbox |-> given]
            /\ \A fx \in {given} \cup FxStrings : sec["bbox"] # eval_fx(fx, stats)
            /\ ValidateTests(vc.tests)

C14_Witness ==
    /\ pc = "done"
    /\ "location_test" \in DOMAIN vc.tests
    /\ ~ _validate_fx(vc.tests["location_test"]["bbox"])
    /\ result[vc.variable].qartod["location_test"]["bbox"] = <<"-80", "30", "-70", "40">>

\* the function, the stream_id or the test of a result is in the exclude list
Excluded(cr) ==
    exclude.given /\ (\/ cr.function \in exclude.items
                      \/ cr.stream_id \in exclude.items
                      \/ cr.test \in exclude.items)

\* C15 (as claimed): save with an exclude list completes without error, and
\* no column of the dataframe holds the data or the QC results of a result
\* whose function, stream_id or test is in the exclude list, with or without
\* an include list.
C15_ExcludeSkipsEverythingDefined ==
    exclude.given =>
        /\ savePc # "TypeError"
        /\ \A k \in 1..(crIdx - 1) :
              Excluded(collected_results[k]) =>
                  \A c \in 1..Len(df) :
                      df[c].values \notin {<<k, "data">>, <<k, "results">>}

\* the variables of the dataset that match the key of an entry of results
Matching(d, key) == get_variables_by_attributes(d, key[2], key[3], key[1])

EntryKey(e) == <<e.vname, e.modu, e.testname>>

\* save does not skip the entry
Processed(d, e) == e.vname \in NcNames(d) /\ e.modu \in Packages

StrictlyIncreasing(t) == \A i \in 1..(Len(t) - 1) : t[i] < t[i + 1]

\* C17: check_timestamps returns True exactly when the timestamps are in
\* strictly increasing order and, when max_time_interval is given, no two
\* consecutive timestamps are further apart than it; it returns False
\* otherwise.
C17_TrueIffIncreasingWithinInterval ==
    /\ tsResult \in {"new", "off", "True", "False"}
    /\ tsResult \in {"True", "False"} =>
          (tsResult = "True"
             <=> /\ StrictlyIncreasing(times)
                 /\ max_time_interval.given =>
                       \A i \in 1..(Len(times) - 1) :
                           times[i + 1] - times[i] <= max_time_interval.value)

\* timestamps in order with a duplicate are refused
C17_Witness ==
    /\ tsResult = "False"
    /\ times = <<1, 1, 2>>
    /\ max_time_interval = NoInterval

\* C18 (as claimed): for a deployment window whose start_time is earlier
\* than its end_time, the start date of the time slice is not after its end
\* date.
C18_SliceNotInverted ==
    (time_slice # None /\ DateLe(window[1], window[2]) /\ window[1] # window[2]) =>
        DateLe(strptime(time_slice.start), strptime(time_slice.end))

(***************************************************************************)
(* Specifications                                                          *)
(***************************************************************************)

InitFx == FxInit /\ PadIdle /\ CallIdle /\ UtilIdle

NextFx == QcVariableConfigInit /\ UNCHANGED <<padVars, creatorVars, callVars, subsetVars, utilVars>>

SpecFx == InitFx /\ [][NextFx]_vars

InitPad == PadInit /\ FxIdle /\ CallIdle /\ UtilIdle

NextPad == ApplyBboxPad /\ UNCHANGED <<fxVars, creatorVars, callVars, subsetVars, utilVars>>

SpecPad == InitPad /\ [][NextPad]_vars

InitResolve == ResolveInit /\ FxIdle /\ PadIdle /\ UtilIdle

NextResolve ==
    \/ Var2VarInFile /\ UNCHANGED <<fxVars, padVars, creatorVars, utilVars>>
    \/ GetTimeRange /\ UNCHANGED <<fxVars, padVars, creatorVars, utilVars>>

SpecResolve == InitResolve /\ [][NextResolve]_vars

InitCreator == CreatorInit /\ FxIdle /\ PadIdle /\ UtilIdle

NextCreator ==
    \/ CreateConfig /\ UNCHANGED <<fxVars, padVars, creatorVars, utilVars>>
    \/ GetTimeRange /\ UNCHANGED <<fxVars, padVars, creatorVars, utilVars>>
    \/ FirstSubset /\ UNCHANGED <<fxVars, padVars, creatorVars, utilVars>>
    \/ PadAndRetry /\ UNCHANGED <<fxVars, padVars, creatorVars, utilVars>>
    \/ ReturnStats /\ UNCHANGED <<fxVars, padVars, creatorVars, utilVars>>
    \/ CreateSections /\ UNCHANGED <<fxVars, padVars, creatorVars, utilVars>>
    \/ Return /\ UNCHANGED <<fxVars, padVars, creatorVars, utilVars>>

SpecCreator == InitCreator /\ [][NextCreator]_vars

InitStore == StoreInit /\ FxIdle /\ PadIdle /\ CallIdle /\ NcIdle /\ TsIdle

NextStore ==
    \/ SaveStep /\ UNCHANGED <<fxVars, padVars, creatorVars, callVars, subsetVars, ncVars, tsVars>>
    \/ SaveReturn /\ UNCHANGED <<fxVars, padVars, creatorVars, callVars, subsetVars, ncVars, tsVars>>

SpecStore == InitStore /\ [][NextStore]_vars

InitNetcdf == NcInit /\ FxIdle /\ PadIdle /\ CallIdle /\ StoreIdle /\ TsIdle

NextNetcdf ==
    NetcdfSave /\ UNCHANGED <<fxVars, padVars, creatorVars, callVars, subsetVars, storeVars, tsVars>>

SpecNetcdf == InitNetcdf /\ [][NextNetcdf]_vars

InitTimestamps == TsInit /\ FxIdle /\ PadIdle /\ CallIdle /\ StoreIdle /\ NcIdle

NextTimestamps ==
    CheckTimestamps
        /\ UNCHANGED <<fxVars, padVars, creatorVars, callVars, subsetVars, storeVars, ncVars>>

SpecTimestamps == InitTimestamps /\ [][NextTimestamps]_vars

====
